---- MODULE Spec2Model ----
(***************************************************************************)
(* A model of the NCAA football scraper's fetch pipeline                   *)
(* (src/srcfb_scraper/player_scraper.py, src/main.py).                     *)
(*                                                                         *)
(* The specifications share the module's variables:                        *)
(*   SpecLimiter  RateLimiter.wait and the pacing part of _fetch, with a   *)
(*                discrete clock (one tick = half a second);               *)
(*   SpecFetch    one call of _fetch, attempt by attempt;                  *)
(*   SpecRun      one call of scrape_multiple_players: the semaphore, the  *)
(*                scrape tasks, the event loop's order of callbacks, the   *)
(*                batch loop and the report of _run_player_scraping;       *)
(*   SpecResume   the player-scraping phase run repeatedly over the same   *)
(*                storage, with the resume filter;                         *)
(*   SpecPlayer   the calls of scrape_player, stage by stage;              *)
(*   SpecIndex    scrape_letter_index: the cache and the listing pages;    *)
(*   SpecUrls     get_all_player_urls;                                     *)
(*   SpecStore    the storage namespace and get_existing_data_ids;         *)
(*   SpecId       extract_player_id_from_url on strings;                   *)
(*   SpecTable    _parse_stats_table, row by row;                          *)
(*   SpecFormat   the record scrape_player builds, formats and saves.      *)
(* Each specification leaves the other parts' variables unchanged.         *)
(***************************************************************************)
EXTENDS Integers, Sequences, FiniteSets, TLC

(* ---------------------------------------------------------------- bounds *)
\* Number of player URLs handed to scrape_multiple_players.
NUrls == 4
\* The largest value of the argument `concurrency`.
MaxConcurrency == 2
\* Number of different profile links the listing pages can show.
NLinks == 2
\* The site has no more than this many listing pages with links for a letter.
MaxPages == 2
\* Number of index letters (the length of config.ALPHABET in the model).
NLetters == 2
\* The longest URL given to extract_player_id_from_url, in characters.
MaxUrlLen == 8
\* The most cells a table's header row has; a data row has up to one more.
MaxCols == 2
\* The most data rows _parse_stats_table keeps in the model.
MaxRows == 1
\* The largest value of the argument `retries` of _fetch (its default is 5).
MaxRetries == 7
\* Number of concurrent callers of RateLimiter.wait in SpecLimiter.
NTasks == 3
\* The clock of SpecLimiter stops here (half-second ticks).
MaxTime == 18

(* ------------------------------------------------------------- constants *)
\* RateLimiter(min_interval=3.0): 3.0 s in half-second ticks.
MinInterval == 6
\* random.uniform(0.5, 2): the pre-request jitter, 0.5 s and 2 s in ticks.
JitterMin == 1
JitterMax == 4

VARIABLES
    \* --- SpecLimiter
    now,          \* asyncio.get_event_loop().time(), in ticks
    lastTime,     \* RateLimiter._last_time
    lockOwner,    \* the set of tasks holding RateLimiter._lock (none or one)
    lockWaiters,  \* the FIFO of tasks suspended in _lock.acquire()
    lpc,          \* each task's position in _fetch's pacing
    sleepUntil,   \* each sleeping task's wake-up time
    grantLog,     \* the times at which _last_time was written, in order
    reqLog,       \* the times of the last two calls of session.get, in order
    \* --- SpecFetch: one call of _fetch
    retries,      \* the parameter `retries`
    fpc,          \* the position of the call inside the attempt loop
    attempt,      \* the loop variable `attempt`
    requests,     \* the number of session.get calls issued so far
    respLog,      \* what each request met, in order
    backoffs,     \* the number of backoff sleeps (line 106) started so far
    slept429,     \* the number of 429 sleeps (line 91) completed so far
    sleepFor,     \* the length in seconds of the sleep in progress
    fresult,      \* what _fetch returned: "doc", "None", "raised", or "pending"
    \* --- SpecRun: runs of scrape_multiple_players and their report
    rerun,        \* an earlier run of the pipeline has been reported
    mpc,          \* where the caller is: idle, waiting, returned, reported
    resume,       \* the argument `resume`
    concurrency,  \* the argument `concurrency`
    stored,       \* the identifiers the storage backend holds a record for
    storedAtStart,\* the storage's identifiers when the run started
    existing,     \* `existing_data`
    toProcess,    \* `urls_to_process`
    tpc,          \* each scrape task's position
    tout,         \* each task's outcome: record, none, raised, or pending
    label,        \* `task_to_url`: the URL each URL's task is recorded under (0: no task)
    semValue,     \* semaphore._value
    semWaiters,   \* semaphore._waiters, in order
    ready,        \* the event loop's queue of callbacks that are ready to run
    todo,         \* callbacks left in the loop's current iteration
    results,      \* `results`: unset, ok or failed for each URL
    collected,    \* the tasks the batch loop has taken out of `pending`
    fetched,      \* the URLs a request was issued for in this run
    success,      \* what _run_player_scraping returned: yes, no, or unset
    \* --- SpecPlayer: the calls of scrape_player, step by step
    ppc,          \* each call's position: fetch, extract, save, return, done
    stage,        \* each profile's stage: Pending, Fetched, Extracted, Persisted, Failed
    attempts,     \* each call's `attempt` inside _fetch (requests issued so far)
    running,      \* the call whose synchronous code is executing (0: none)
    pret,         \* what each call returned: pending, record, None or raised
    \* --- SpecIndex: the calls of scrape_letter_index for one letter
    mode,         \* config.STORAGE_MODE: "file" or "couchdb"
    cache,        \* the letter's cache entry: whether one is stored, and its list
    ipc,          \* where the call is: idle, paging, returned
    pageNum,      \* `page_num`
    allPlayers,   \* `all_players`
    pageLog,      \* the listing pages requested by the call, in order
    got,          \* the links each requested page yielded, in order (pages with links)
    iret,         \* the list the last call returned (empty while a call is paging)
    stopReason,   \* why the last paging stopped: "failed" request or "empty" page
    loadOk,       \* whether utils.load_data could read the storage in the last call
    \* --- SpecUrls: one call of get_all_player_urls
    letters,      \* the argument `letters`: whether a list was given, and the list
    allPlayerData,\* `all_player_data`: the list of links of each letter scraped
    upc,          \* where the call is: idle, collecting, returned
    letterIdx,    \* position of the loop over the letters
    orderedUrls,  \* `ordered_urls`
    \* --- SpecStore: the storage namespace and get_existing_data_ids
    storageMode,  \* config.STORAGE_MODE: "file" or "couchdb"
    documents,    \* the identifiers stored (files of PLAYER_DATA_DIR, or documents)
    existingIds,  \* what the last call of get_existing_data_ids returned
    \* --- SpecId: calls of extract_player_id_from_url on one URL
    url,          \* the argument `url`, a sequence of characters
    idResults,    \* what the calls made so far returned, in order
    \* --- SpecTable: one call of _parse_stats_table
    tabpc,        \* where the call is: start, rows, looked, returned
    headerCells,  \* the texts of the cells of the table's header row
    headers,      \* `headers`, the texts of the header cells kept
    cells,        \* the texts of `cells` of the data row the loop is at
    colHeads,     \* the positions of that row's cells that are th of scope 'col'
    asData,       \* whether the loop went on to that row's cells (no `continue`)
    kept,         \* whether that row's row_data was appended to rows_data
    rowsData,     \* `rows_data`
    \* --- SpecFormat: the record scrape_player hands to the storage
    xpc,          \* where scrape_player is: fetched, extracted, saved
    soup,         \* what the extraction methods find on the fetched page
    playerData,   \* `player_data`, the dict of _extract_player_data
    handedId,     \* the identifier given to utils.save_data
    handedData    \* the dict given to utils.save_data

limiterVars == <<now, lastTime, lockOwner, lockWaiters, lpc, sleepUntil,
                 grantLog, reqLog>>

fetchVars == <<retries, fpc, attempt, requests, respLog, backoffs, slept429,
               sleepFor, fresult>>

runVars == <<rerun, mpc, resume, concurrency, stored, storedAtStart, existing,
             toProcess, tpc, tout, label, semValue, semWaiters, ready, todo,
             results, collected, fetched, success>>

playerVars == <<ppc, stage, attempts, running, pret>>

indexVars == <<mode, cache, ipc, pageNum, allPlayers, pageLog, got, iret, stopReason, loadOk>>

urlsVars == <<letters, allPlayerData, upc, letterIdx, orderedUrls>>

storeVars == <<storageMode, documents, existingIds>>

idVars == <<url, idResults>>

tableVars == <<tabpc, headerCells, headers, cells, colHeads, asData, kept, rowsData>>

formatVars == <<xpc, soup, playerData, handedId, handedData>>

\* The parts added after the first three, and the first three.
laterVars == <<playerVars, indexVars, urlsVars, storeVars, idVars, tableVars, formatVars>>
exceptPlayer == <<indexVars, urlsVars, storeVars, idVars, tableVars, formatVars>>
exceptIndex == <<playerVars, urlsVars, storeVars, idVars, tableVars, formatVars>>
exceptUrls == <<playerVars, indexVars, storeVars, idVars, tableVars, formatVars>>
exceptStore == <<playerVars, indexVars, urlsVars, idVars, tableVars, formatVars>>
exceptId == <<playerVars, indexVars, urlsVars, storeVars, tableVars, formatVars>>
exceptTable == <<playerVars, indexVars, urlsVars, storeVars, idVars, formatVars>>
exceptFormat == <<playerVars, indexVars, urlsVars, storeVars, idVars, tableVars>>
coreVars == <<limiterVars, fetchVars, runVars>>

vars == <<coreVars, laterVars>>

LTasks == 1..NTasks

\* The last two entries of a log: enough to compare each entry with its predecessor.
Recent(log) == IF Len(log) <= 2 THEN log ELSE SubSeq(log, Len(log) - 1, Len(log))

Max(a, b) == IF a >= b THEN a ELSE b
Min(a, b) == IF a <= b THEN a ELSE b

\* The variables of a part that a specification does not exercise.
FetchIdle ==
    /\ retries = 0
    /\ fpc = "idle"
    /\ attempt = 0
    /\ requests = 0
    /\ respLog = <<>>
    /\ backoffs = 0
    /\ slept429 = 0
    /\ sleepFor = 0
    /\ fresult = "pending"

Urls == 1..NUrls

RunIdle ==
    /\ rerun = FALSE
    /\ mpc = "idle"
    /\ resume = TRUE
    /\ concurrency = 1
    /\ stored = {}
    /\ storedAtStart = {}
    /\ existing = {}
    /\ toProcess = <<>>
    /\ tpc = [u \in Urls |-> "none"]
    /\ tout = [u \in Urls |-> "pending"]
    /\ label = [u \in Urls |-> 0]
    /\ semValue = 0
    /\ semWaiters = <<>>
    /\ ready = <<>>
    /\ todo = 0
    /\ results = [u \in Urls |-> "unset"]
    /\ collected = {}
    /\ fetched = {}
    /\ success = "unset"

LimiterIdle ==
    /\ now = 0 /\ lastTime = 0 /\ lockOwner = {} /\ lockWaiters = <<>>
    /\ lpc = [t \in LTasks |-> "idle"]
    /\ sleepUntil = [t \in LTasks |-> 0]
    /\ grantLog = <<>> /\ reqLog = <<>>

CoreIdle == LimiterIdle /\ FetchIdle /\ RunIdle

PlayerIdle ==
    /\ ppc = [u \in Urls |-> "fetch"]
    /\ stage = [u \in Urls |-> "Pending"]
    /\ attempts = [u \in Urls |-> 0]
    /\ running = 0
    /\ pret = [u \in Urls |-> "pending"]

IndexIdle ==
    /\ mode = "file"
    /\ cache = [has |-> FALSE, list |-> <<>>]
    /\ ipc = "idle"
    /\ pageNum = 0
    /\ allPlayers = <<>>
    /\ pageLog = <<>>
    /\ got = <<>>
    /\ iret = <<>>
    /\ stopReason = "none"
    /\ loadOk = TRUE

UrlsIdle ==
    /\ letters = [given |-> FALSE, list |-> <<>>]
    /\ allPlayerData = <<>>
    /\ upc = "idle"
    /\ letterIdx = 0
    /\ orderedUrls = <<>>

StoreIdle ==
    /\ storageMode = "file"
    /\ documents = {}
    /\ existingIds = {}

IdIdle ==
    /\ url = <<>>
    /\ idResults = <<>>

TableIdle ==
    /\ tabpc = "start"
    /\ headerCells = <<>>
    /\ headers = <<>>
    /\ cells = <<>>
    /\ colHeads = {}
    /\ asData = FALSE
    /\ kept = FALSE
    /\ rowsData = <<>>

FormatIdle ==
    /\ xpc = "fetched"
    /\ soup = [player_id |-> "p1", source_url |-> "url", player_info |-> "{}",
               career_stats |-> "{}", season_stats |-> "[]", game_logs |-> "[]",
               advanced_stats |-> "{}"]
    /\ playerData = <<>>
    /\ handedId = ""
    /\ handedData = <<>>

LaterIdle == PlayerIdle /\ IndexIdle /\ UrlsIdle /\ StoreIdle /\ IdIdle /\ TableIdle /\ FormatIdle
IdleExceptPlayer == IndexIdle /\ UrlsIdle /\ StoreIdle /\ IdIdle /\ TableIdle /\ FormatIdle
IdleExceptIndex == PlayerIdle /\ UrlsIdle /\ StoreIdle /\ IdIdle /\ TableIdle /\ FormatIdle
IdleExceptUrls == PlayerIdle /\ IndexIdle /\ StoreIdle /\ IdIdle /\ TableIdle /\ FormatIdle
IdleExceptStore == PlayerIdle /\ IndexIdle /\ UrlsIdle /\ IdIdle /\ TableIdle /\ FormatIdle
IdleExceptId == PlayerIdle /\ IndexIdle /\ UrlsIdle /\ StoreIdle /\ TableIdle /\ FormatIdle
IdleExceptTable == PlayerIdle /\ IndexIdle /\ UrlsIdle /\ StoreIdle /\ IdIdle /\ FormatIdle
IdleExceptFormat == PlayerIdle /\ IndexIdle /\ UrlsIdle /\ StoreIdle /\ IdIdle /\ TableIdle

(* ------------------------------------------------ RateLimiter (SpecLimiter) *)

\* wait_for = max(0, self.min_interval - elapsed) with elapsed = now - _last_time
WaitForNoElapsed(t, last) == 0
WaitFor(t, last) == Max(0, MinInterval - (t - last))

\* random.uniform(0.5, 2)
Jitter == JitterMin..JitterMax

\* asyncio.sleep(d) started now: the time it is due (0: due at once).
WakeAt(d) == IF d <= 0 THEN 0 ELSE now + d

LimiterInit ==
    /\ now = 0
    /\ lastTime = 0
    /\ lockOwner = {}
    /\ lockWaiters = <<>>
    /\ lpc = [t \in LTasks |-> "idle"]
    /\ sleepUntil = [t \in LTasks |-> 0]
    /\ grantLog = <<>>
    /\ reqLog = <<>>
    /\ FetchIdle
    /\ RunIdle
    /\ LaterIdle

\* The clock advances. A sleeper may be woken later than its due time, never
\* earlier: a timer that is due is marked so (0) and stays ready until the task runs.
Tick ==
    /\ now < MaxTime
    /\ now' = now + 1
    /\ sleepUntil' = [t \in LTasks |-> IF sleepUntil[t] <= now + 1 THEN 0 ELSE sleepUntil[t]]
    /\ UNCHANGED <<lastTime, lockOwner, lockWaiters, lpc, grantLog, reqLog>>
    /\ UNCHANGED <<fetchVars, runVars, laterVars>>

\* The fast path of asyncio.Lock.acquire: the lock is not held and no waiter
\* queues for it (a waiter that was woken and has not run yet still queues).
LockFreeIgnoringWaiters(owner, waiters) == owner = {}
LockFree(owner, waiters) == owner = {} /\ waiters = <<>>

\* `await rate_limiter.wait()`: `async with self._lock` when the lock is free and
\* nobody queues for it, then now, elapsed, wait_for and the start of the sleep.
WaitEnter(t) ==
    /\ lpc[t] = "idle"
    /\ LockFree(lockOwner, lockWaiters)
    /\ lockOwner' = {t}
    /\ sleepUntil' = [sleepUntil EXCEPT ![t] = WakeAt(WaitFor(now, lastTime))]
    /\ lpc' = [lpc EXCEPT ![t] = "gate_sleep"]
    /\ UNCHANGED <<now, lastTime, lockWaiters, grantLog, reqLog>>
    /\ UNCHANGED <<fetchVars, runVars, laterVars>>

\* `async with self._lock` when the lock is held or others queue: suspend, FIFO.
WaitQueue(t) ==
    /\ lpc[t] = "idle"
    /\ ~LockFree(lockOwner, lockWaiters)
    /\ lockWaiters' = Append(lockWaiters, t)
    /\ lpc' = [lpc EXCEPT ![t] = "lock_wait"]
    /\ UNCHANGED <<now, lastTime, lockOwner, sleepUntil, grantLog, reqLog>>
    /\ UNCHANGED <<fetchVars, runVars, laterVars>>

\* The first waiter resumes once the lock was released and takes it.
LockGranted(t) ==
    /\ lpc[t] = "lock_wait"
    /\ lockOwner = {}
    /\ lockWaiters # <<>> /\ Head(lockWaiters) = t
    /\ lockOwner' = {t}
    /\ lockWaiters' = Tail(lockWaiters)
    /\ sleepUntil' = [sleepUntil EXCEPT ![t] = WakeAt(WaitFor(now, lastTime))]
    /\ lpc' = [lpc EXCEPT ![t] = "gate_sleep"]
    /\ UNCHANGED <<now, lastTime, grantLog, reqLog>>
    /\ UNCHANGED <<fetchVars, runVars, laterVars>>

\* asyncio.sleep(wait_for) returns: _last_time = time(), the lock is released, and
\* _fetch starts `await asyncio.sleep(random.uniform(0.5, 2))`.
GateWake(t) ==
    /\ lpc[t] = "gate_sleep"
    /\ now >= sleepUntil[t]
    /\ lastTime' = now
    /\ grantLog' = Append(grantLog, now)
    /\ lockOwner' = {}
    /\ \E j \in Jitter : sleepUntil' = [sleepUntil EXCEPT ![t] = WakeAt(j)]
    /\ lpc' = [lpc EXCEPT ![t] = "jitter"]
    /\ UNCHANGED <<now, lockWaiters, reqLog>>
    /\ UNCHANGED <<fetchVars, runVars, laterVars>>

\* The jitter sleep returns: headers, proxy, and session.get(url, ...) is issued.
Request(t) ==
    /\ lpc[t] = "jitter"
    /\ now >= sleepUntil[t]
    /\ reqLog' = Recent(Append(reqLog, now))
    /\ sleepUntil' = [sleepUntil EXCEPT ![t] = 0]
    /\ lpc' = [lpc EXCEPT ![t] = "in_request"]
    /\ UNCHANGED <<now, lastTime, lockOwner, lockWaiters, grantLog>>
    /\ UNCHANGED <<fetchVars, runVars, laterVars>>

\* The response (or the error) arrives after any latency. The task is then back
\* before a call of rate_limiter.wait(): its next attempt, after a sleep of any
\* length from 0 up (random.uniform(0, ...)), if it makes one.
Response(t) ==
    /\ lpc[t] = "in_request"
    /\ lpc' = [lpc EXCEPT ![t] = "idle"]
    /\ UNCHANGED <<now, lastTime, lockOwner, lockWaiters, sleepUntil, grantLog, reqLog>>
    /\ UNCHANGED <<fetchVars, runVars, laterVars>>

LimiterNext ==
    \/ Tick
    \/ \E t \in LTasks : WaitEnter(t)
    \/ \E t \in LTasks : WaitQueue(t)
    \/ \E t \in LTasks : LockGranted(t)
    \/ \E t \in LTasks : GateWake(t)
    \/ \E t \in LTasks : Request(t)
    \/ \E t \in LTasks : Response(t)

SpecLimiter == LimiterInit /\ [][LimiterNext]_vars

(* C1: the times at which grants are recorded are pairwise at least          *)
(* min_interval apart, so N grants take at least (N-1)*min_interval.         *)
C1_GrantsSpaced ==
    /\ \A i, j \in 1..Len(grantLog) :
          i < j => grantLog[j] - grantLog[i] >= MinInterval
    /\ Len(grantLog) >= 1 =>
          grantLog[Len(grantLog)] - grantLog[1] >= (Len(grantLog) - 1) * MinInterval

\* As many grants as there are callers were recorded, and a caller queues for the lock.
C1_Witness ==
    /\ Len(grantLog) >= NTasks
    /\ \E t \in LTasks : lpc[t] = "lock_wait"

(* C2: any two outbound requests of _fetch are issued at least min_interval  *)
(* apart. The jitter sleep sits between the grant and session.get, so the    *)
(* code does not keep this.                                                   *)
C2_RequestsSpaced ==
    \A i, j \in 1..Len(reqLog) :
        i < j => reqLog[j] - reqLog[i] >= MinInterval

(* ------------------------------------------------------ _fetch (SpecFetch) *)

\* `retries: int = 5`
DefaultRetries == 5
\* base_backoff = 2 and max_backoff = 60, in seconds
BaseBackoff == 2
MaxBackoff == 60
\* retry_after = min(retry_after, 300)
RetryAfterCap == 300
\* random.uniform(60, 180), the wait assumed when Retry-After is absent or malformed
DefaultRetryAfterMin == 60
DefaultRetryAfterMax == 180

RECURSIVE Pow2(_)
Pow2(n) == IF n <= 0 THEN 1 ELSE 2 * Pow2(n - 1)

\* What a request can meet: a 2xx response, HTTP 429, another HTTP error status
\* (raise_for_status raises ClientResponseError, an aiohttp.ClientError), or an
\* aiohttp.ClientError / asyncio.TimeoutError raised by the request itself.
Outcomes == {"ok", "r429", "http_error", "client_error"}
Transient == {"http_error", "client_error"}

\* response.raise_for_status(): an error status (400 and above) raises
\* ClientResponseError; a 2xx response passes. 429 is handled before it.
RaisesForStatusNever(o) == FALSE
RaisesForStatus(o) == o = "http_error"

\* The Retry-After header of a 429 response: absent, not an integer, or an integer.
RetryAfterHeaders ==
    {[kind |-> k, secs |-> 0] : k \in {"absent", "malformed"}}
        \cup {[kind |-> "int", secs |-> v] : v \in {-5, 0, 120, 1000}}

\* Lines 75-84: the header's integer, else a draw from 60..180; capped at 300.
RetryAfter(h, draw) == Min(IF h.kind = "int" THEN h.secs ELSE draw, RetryAfterCap)

\* backoff = min(max_backoff, base_backoff * (2 ** attempt))
BackoffUncapped(att) == BaseBackoff * Pow2(att)
Backoff(att) == Min(MaxBackoff, BaseBackoff * Pow2(att))

\* `if attempt < retries - 1`: a failed attempt is followed by a backoff sleep
\* unless it was the last one.
SleepsAfterErrorAlways(att, r) == TRUE
SleepsAfterError(att, r) == att < r - 1

\* `for attempt in range(retries)`: whether the loop has another attempt after att.
HasNextAttemptOneMore(att, r) == att + 1 <= r
HasNextAttemptNever(att, r) == FALSE
HasNextAttempt(att, r) == att + 1 < r

FetchInit ==
    /\ retries \in 1..MaxRetries
    /\ fpc = "limiter"
    /\ attempt = 0
    /\ requests = 0
    /\ respLog = <<>>
    /\ backoffs = 0
    /\ slept429 = 0
    /\ sleepFor = 0
    /\ fresult = "pending"
    /\ now = 0 /\ lastTime = 0 /\ lockOwner = {} /\ lockWaiters = <<>>
    /\ lpc = [t \in LTasks |-> "idle"]
    /\ sleepUntil = [t \in LTasks |-> 0]
    /\ grantLog = <<>> /\ reqLog = <<>>
    /\ RunIdle
    /\ LaterIdle

\* `await rate_limiter.wait()` returns; the jitter sleep starts.
FetchPaced ==
    /\ fpc = "limiter"
    /\ fpc' = "jitter"
    /\ UNCHANGED <<retries, attempt, requests, respLog, backoffs, slept429, sleepFor, fresult>>
    /\ UNCHANGED <<limiterVars, runVars, laterVars>>

\* The jitter sleep returns; session.get(url, ...) is issued.
FetchIssue ==
    /\ fpc = "jitter"
    /\ requests' = requests + 1
    /\ fpc' = "request"
    /\ UNCHANGED <<retries, attempt, respLog, backoffs, slept429, sleepFor, fresult>>
    /\ UNCHANGED <<limiterVars, runVars, laterVars>>

\* A response that raise_for_status lets pass: `return await response.text()`.
FetchOk ==
    /\ fpc = "request"
    /\ \E o \in {"ok", "http_error"} :
          /\ ~RaisesForStatus(o)
          /\ respLog' = Append(respLog, o)
    /\ fresult' = "doc"
    /\ fpc' = "returned"
    /\ UNCHANGED <<retries, attempt, requests, backoffs, slept429, sleepFor>>
    /\ UNCHANGED <<limiterVars, runVars, laterVars>>

\* HTTP 429: Retry-After, the cap, full jitter, and the sleep starts (lines 73-91).
Fetch429 ==
    /\ fpc = "request"
    /\ respLog' = Append(respLog, "r429")
    /\ \E h \in RetryAfterHeaders, draw \in {DefaultRetryAfterMin, DefaultRetryAfterMax} :
          sleepFor' \in {0, RetryAfter(h, draw)}
    /\ fpc' = "sleep429"
    /\ UNCHANGED <<retries, attempt, requests, backoffs, slept429, fresult>>
    /\ UNCHANGED <<limiterVars, runVars, laterVars>>

\* The 429 sleep returns and `continue` takes the loop to its next attempt; when
\* there is none the loop ends and the function returns None.
Fetch429Continue ==
    /\ fpc = "sleep429"
    /\ slept429' = slept429 + 1
    /\ sleepFor' = 0
    /\ attempt' = attempt + 1
    /\ IF HasNextAttempt(attempt, retries)
          THEN fpc' = "limiter" /\ UNCHANGED fresult
          ELSE fpc' = "returned" /\ fresult' = "None"
    /\ UNCHANGED <<retries, requests, respLog, backoffs>>
    /\ UNCHANGED <<limiterVars, runVars, laterVars>>

\* aiohttp.ClientError or asyncio.TimeoutError (lines 98-109): a backoff sleep
\* with full jitter, or `return None` after the last attempt.
FetchError ==
    /\ fpc = "request"
    /\ \E o \in Transient :
          /\ o = "http_error" => RaisesForStatus(o)
          /\ respLog' = Append(respLog, o)
    /\ IF SleepsAfterError(attempt, retries)
          THEN /\ sleepFor' \in {0, Backoff(attempt)}
               /\ backoffs' = backoffs + 1
               /\ fpc' = "backoff"
               /\ UNCHANGED fresult
          ELSE /\ fresult' = "None"
               /\ fpc' = "returned"
               /\ UNCHANGED <<sleepFor, backoffs>>
    /\ UNCHANGED <<retries, attempt, requests, slept429>>
    /\ UNCHANGED <<limiterVars, runVars, laterVars>>

\* The backoff sleep returns; the loop goes to its next attempt (or ends).
FetchBackoffDone ==
    /\ fpc = "backoff"
    /\ sleepFor' = 0
    /\ attempt' = attempt + 1
    /\ IF HasNextAttempt(attempt, retries)
          THEN fpc' = "limiter" /\ UNCHANGED fresult
          ELSE fpc' = "returned" /\ fresult' = "None"
    /\ UNCHANGED <<retries, requests, respLog, backoffs, slept429>>
    /\ UNCHANGED <<limiterVars, runVars, laterVars>>

FetchNext ==
    \/ FetchPaced
    \/ FetchIssue
    \/ FetchOk
    \/ Fetch429
    \/ Fetch429Continue
    \/ FetchError
    \/ FetchBackoffDone

SpecFetch == FetchInit /\ [][FetchNext]_vars

AllIn(log, S) == \A i \in 1..Len(log) : log[i] \in S
Count429(log) == Cardinality({i \in 1..Len(log) : log[i] = "r429"})

(* C6: for a URL whose every attempt raises a transient error, _fetch issues  *)
(* exactly `retries` requests, sleeps a backoff only between attempts (one    *)
(* after each failed attempt but the last) and then returns None.             *)
C6_TransientOnly ==
    (Len(respLog) >= 1 /\ AllIn(respLog, {"client_error"})) =>
        /\ requests <= retries
        /\ backoffs = Min(Len(respLog), retries - 1)
        /\ (fpc = "backoff") => (requests < retries)
        /\ (fpc = "returned") => (requests = retries /\ fresult = "None")

\* A call that met only transient errors has returned after several attempts.
C6_Witness ==
    /\ fpc = "returned"
    /\ retries = DefaultRetries
    /\ Len(respLog) = DefaultRetries
    /\ AllIn(respLog, {"client_error"})

(* C7: whatever the responses, _fetch issues at most `retries` requests and   *)
(* returns; a URL answering 429 on every attempt ends with None after at most *)
(* `retries` requests.                                                        *)
C7_AtMostRetries ==
    /\ requests <= retries
    /\ Len(respLog) <= retries
    /\ (fpc # "returned") => (attempt < retries /\ fresult = "pending"
                               /\ ENABLED FetchNext)
    /\ (fpc = "returned" /\ AllIn(respLog, {"r429"})) =>
          (fresult = "None" /\ requests = retries)

\* A call that met 429 on each of its attempts has returned.
C7_Witness ==
    /\ fpc = "returned"
    /\ retries = DefaultRetries
    /\ Len(respLog) = DefaultRetries
    /\ AllIn(respLog, {"r429"})

(* C8 as stated: every attempt that receives HTTP 429, the last one allowed   *)
(* by `retries` included, is followed by a wait and another request.          *)
C8_Always429Retried ==
    fpc = "returned" =>
        \A i \in 1..Len(respLog) : respLog[i] = "r429" => Len(respLog) > i

(* C8 amended: an attempt other than the last one allowed by `retries` that   *)
(* receives 429 is followed by a completed wait and then another request;     *)
(* after a 429 on the last attempt the client waits and returns None without  *)
(* a further request.                                                          *)
C8_429RetriedBeforeLast ==
    /\ fpc \in {"limiter", "jitter", "request", "returned"} =>
          slept429 = Count429(respLog)
    /\ fpc = "returned" =>
          \A i \in 1..Len(respLog) :
              respLog[i] = "r429" =>
                  IF i < retries THEN Len(respLog) > i
                  ELSE Len(respLog) = i /\ fresult = "None"

\* A 429 on an early attempt was followed by a request, and a 429 on the last
\* attempt by the return.
C8_Witness ==
    /\ fpc = "returned"
    /\ retries >= 2
    /\ Len(respLog) = retries
    /\ respLog[1] = "r429"
    /\ respLog[retries] = "r429"

(* ------------------------------------- scrape_multiple_players (SpecRun) *)

\* config.MAX_CONCURRENT_REQUESTS, the default of `concurrency`
MAX_CONCURRENT_REQUESTS == 1

\* utils.extract_player_id_from_url on the u-th player URL: the URLs are distinct
\* profile pages of one site, so each has an identifier of its own.
PlayerId(u) == u

\* `existing_data = utils.get_existing_data_ids(self.logger) if resume else set()`
ExistingData(res, store) == IF res THEN store ELSE {}

\* `[url for url in player_urls if extract_player_id_from_url(url) not in existing_data]`
RECURSIVE FilterUrls(_, _)
FilterUrls(urls, ex) ==
    IF urls = <<>> THEN <<>>
    ELSE IF PlayerId(Head(urls)) \notin ex
         THEN <<Head(urls)>> \o FilterUrls(Tail(urls), ex)
         ELSE FilterUrls(Tail(urls), ex)

UrlsToProcessUnfiltered(urls, ex) == urls
UrlsToProcess(urls, ex) == FilterUrls(urls, ex)

\* player_urls: the URLs index discovery returns, the same in every run.
PlayerUrls == [i \in 1..NUrls |-> i]

Range(f) == {f[i] : i \in DOMAIN f}

\* `task_to_url = {task: url for task, url in zip(tasks, urls_to_process)}` with
\* `tasks` a set: the i-th task in the set's iteration order is paired with the
\* i-th URL. The set iterates in an order given by the tasks' hashes; two orders
\* are taken here, the order of creation and its reverse. Each gives, for the
\* URL whose task it is, the URL that task is recorded under.
IndexOf(urls, u) == CHOOSE i \in 1..Len(urls) : urls[i] = u
Labellings(urls) ==
    {[u \in Urls |-> IF u \in Range(urls) THEN u ELSE 0],
     [u \in Urls |-> IF u \in Range(urls)
                     THEN urls[Len(urls) + 1 - IndexOf(urls, u)] ELSE 0]}

\* Tasks holding a permit of the semaphore: inside `async with semaphore`
\* ("in_fetch", and "finishing" once the event that ends the fetch has arrived),
\* or handed the permit by _wake_up_next and not yet resumed ("woken").
InFetch == {u \in Urls : tpc[u] \in {"in_fetch", "finishing"}}
Holders == {u \in Urls : tpc[u] \in {"woken", "in_fetch", "finishing"}}
Ceiling == semValue + Cardinality(Holders)

\* A callback in the loop's queue: the step of a task, the done-callback of a
\* task (asyncio.wait's _on_completion), or the wake-up of the main coroutine.
Callback(k, u) == [kind |-> k, task |-> u]
MainWakeup == Callback("main", 0)

\* BaseEventLoop._run_once: an iteration runs the callbacks that were ready when
\* it began; those scheduled meanwhile wait for the next iteration.
AfterHead == IF todo = 0 THEN Len(ready) - 1 ELSE todo - 1

FirstWaitingNobody(waiters, pcs) == {}

\* Semaphore._wake_up_next: the first waiter whose future is not done gets the
\* permit (the value is taken on its behalf).
FirstWaiting(waiters, pcs) ==
    LET idx == {i \in 1..Len(waiters) : pcs[waiters[i]] = "sem_wait"}
    IN IF idx = {} THEN {} ELSE {waiters[CHOOSE i \in idx : \A j \in idx : i <= j]}

\* Semaphore.release followed by _wake_up_next, as <<_value, tpc, ready>>: the
\* waiter's future is resolved, which schedules the waiter's next step.
WakeUpNext(value, waiters, pcs, queue) ==
    LET w == FirstWaiting(waiters, pcs)
    IN IF w = {} THEN <<value, pcs, queue>>
       ELSE <<value - 1,
              [u \in Urls |-> IF u \in w THEN "woken" ELSE pcs[u]],
              Append(queue, Callback("resume", CHOOSE u \in w : TRUE))>>

RemoveFrom(seq, x) == SelectSeq(seq, LAMBDA y : y # x)

\* `semaphore._value = max(1, semaphore._value - 1)`
ReducedValue(v) == Max(1, v - 1)

\* `recent_failures / max(1, len(done)) > 0.3`
HighFailureRate(fails, n) == 10 * fails > 3 * Max(1, n)

\* _run_player_scraping: success_rate >= 80.0, with the rate 0 when no result.
SuccessRateOk(ok, total) == IF total > 0 THEN ok * 100 >= 80 * total ELSE FALSE

RunInit ==
    /\ RunIdle
    /\ FetchIdle
    /\ LaterIdle
    /\ now = 0 /\ lastTime = 0 /\ lockOwner = {} /\ lockWaiters = <<>>
    /\ lpc = [t \in LTasks |-> "idle"]
    /\ sleepUntil = [t \in LTasks |-> 0]
    /\ grantLog = <<>> /\ reqLog = <<>>

\* scrape_multiple_players(player_urls, resume=res, concurrency=conc) up to its
\* first `await asyncio.wait`: the resume filter, the early return, the
\* semaphore, the tasks; every task then runs to its first suspension, in
\* creation order: the first `conc` tasks enter the semaphore, the others queue
\* in semaphore.acquire().
StartRun(res, conc) ==
    /\ mpc \in {"idle", "reported"}
    /\ rerun' = (mpc = "reported")
    /\ LET ex == ExistingData(res, stored)
           urls == UrlsToProcess(PlayerUrls, ex)
           n == Len(urls)
           k == Min(conc, n)
       IN /\ resume' = res
          /\ concurrency' = conc
          /\ existing' = ex
          /\ toProcess' = urls
          /\ tpc' = [u \in Urls |->
                       IF \E i \in 1..k : urls[i] = u THEN "in_fetch"
                       ELSE IF \E i \in (k + 1)..n : urls[i] = u THEN "sem_wait"
                       ELSE "none"]
          /\ semWaiters' = SubSeq(urls, k + 1, n)
          /\ semValue' = IF n = 0 THEN 0 ELSE conc - k
          /\ label' \in Labellings(urls)
          /\ mpc' = IF n = 0 THEN "returned" ELSE "waiting"
    /\ storedAtStart' = stored
    /\ tout' = [u \in Urls |-> "pending"]
    /\ results' = [u \in Urls |-> "unset"]
    /\ collected' = {}
    /\ fetched' = {}
    /\ success' = "unset"
    /\ ready' = <<>>
    /\ todo' = 0
    /\ UNCHANGED stored
    /\ UNCHANGED <<limiterVars, fetchVars, laterVars>>

\* What a call of _fetch comes to (SpecFetch has its attempts): the document,
\* None, or an exception that is neither a ClientError nor a timeout.
FetchResults == {"doc", "None", "raised"}

\* scrape_player after `html_content = await self._fetch(...)`, which runs without
\* suspending: an empty body is a failure (`if not html_content`), extraction may
\* raise (caught: None), and the record is saved, the value of save_data ignored.
\* Gives the set of <<task outcome, record saved>> that can follow.
AfterFetch(fr) ==
    IF fr = "doc"
    THEN {<<"record", TRUE>>, <<"record", FALSE>>, <<"none", FALSE>>}
    ELSE IF fr = "None" THEN {<<"none", FALSE>>}
    ELSE {<<"raised", FALSE>>}

\* The network reply or the timer that lets the task of u finish _fetch arrives:
\* the loop collects events between iterations and queues the task's step.
FetchEvent(u) ==
    /\ mpc = "waiting"
    /\ todo = 0
    /\ tpc[u] = "in_fetch"
    /\ tpc' = [tpc EXCEPT ![u] = "finishing"]
    /\ ready' = Append(ready, Callback("step", u))
    /\ UNCHANGED <<rerun, mpc, resume, concurrency, stored, storedAtStart, existing,
                   toProcess, tout, label, semValue, semWaiters, todo, results,
                   collected, fetched, success>>
    /\ UNCHANGED <<limiterVars, fetchVars, laterVars>>

\* The last step of the task of u: _fetch returns, the permit is released (the
\* next waiter is handed it), the rest of scrape_player runs and the task ends,
\* which schedules its done-callbacks.
TaskFetch(u) ==
    /\ mpc = "waiting"
    /\ ready # <<>>
    /\ Head(ready) = Callback("step", u)
    /\ fetched' = fetched \cup {u}
    /\ \E fr \in FetchResults : \E end \in AfterFetch(fr) :
        LET woke == WakeUpNext(semValue + 1, semWaiters, tpc, Tail(ready))
        IN /\ semValue' = woke[1]
           /\ tpc' = [woke[2] EXCEPT ![u] = "done"]
           /\ ready' = Append(woke[3], Callback("done", u))
           /\ tout' = [tout EXCEPT ![u] = end[1]]
           /\ stored' = IF end[2] THEN stored \cup {PlayerId(u)} ELSE stored
    /\ todo' = AfterHead
    /\ UNCHANGED <<rerun, mpc, resume, concurrency, storedAtStart, existing, toProcess,
                   label, semWaiters, results, collected, success>>
    /\ UNCHANGED <<limiterVars, fetchVars, laterVars>>

\* A waiter that was handed a permit resumes in Semaphore.acquire: it leaves the
\* waiters, `if self._value > 0: self._wake_up_next()`, and enters the section,
\* where it suspends in the rate limiter or in the request.
SemResume(u) ==
    /\ mpc = "waiting"
    /\ ready # <<>>
    /\ Head(ready) = Callback("resume", u)
    /\ LET rest == RemoveFrom(semWaiters, u)
           woke == IF semValue > 0 THEN WakeUpNext(semValue, rest, tpc, Tail(ready))
                   ELSE <<semValue, tpc, Tail(ready)>>
       IN /\ semWaiters' = rest
          /\ semValue' = woke[1]
          /\ tpc' = [woke[2] EXCEPT ![u] = "in_fetch"]
          /\ ready' = woke[3]
    /\ todo' = AfterHead
    /\ UNCHANGED <<rerun, mpc, resume, concurrency, stored, storedAtStart, existing,
                   toProcess, tout, label, results, collected, fetched, success>>
    /\ UNCHANGED <<limiterVars, fetchVars, laterVars>>

\* asyncio.wait's _on_completion for the task of u: with FIRST_COMPLETED it
\* resolves the waiter future unless that is done already, which schedules the
\* main coroutine. A callback left over from an earlier call of asyncio.wait
\* finds its waiter done.
DoneCallback(u) ==
    /\ mpc = "waiting"
    /\ ready # <<>>
    /\ Head(ready) = Callback("done", u)
    /\ ready' = IF u \in collected \/ \E i \in 1..Len(ready) : ready[i] = MainWakeup
                THEN Tail(ready)
                ELSE Append(Tail(ready), MainWakeup)
    /\ todo' = AfterHead
    /\ UNCHANGED <<rerun, mpc, resume, concurrency, stored, storedAtStart, existing,
                   toProcess, tpc, tout, label, semValue, semWaiters, results,
                   collected, fetched, success>>
    /\ UNCHANGED <<limiterVars, fetchVars, laterVars>>

\* `results[url] = player_data is not None`, or False when task.result() raises,
\* for the tasks of `batch`, each under the URL task_to_url gives for it.
Recorded(batch) ==
    [v \in Urls |->
        IF \E u \in batch : label[u] = v
        THEN LET u == CHOOSE w \in batch : label[w] = v
             IN IF tout[u] = "record" THEN "ok" ELSE "failed"
        ELSE results[v]]

\* One round of the batch loop: asyncio.wait returns the tasks that are done,
\* their outcomes are recorded under task_to_url, and the failure rate of the
\* batch adjusts semaphore._value. When nothing is pending the function returns
\* `results`; its tasks, its semaphore and task_to_url are gone with it.
MainCollect ==
    /\ mpc = "waiting"
    /\ ready # <<>>
    /\ Head(ready) = MainWakeup
    /\ LET batch == {u \in Urls : tpc[u] = "done"} \ collected
           res == Recorded(batch)
           fails == Cardinality({u \in batch : res[label[u]] = "failed"})
           value == IF HighFailureRate(fails, Cardinality(batch))
                    THEN ReducedValue(semValue) ELSE semValue
       IN /\ results' = res
          /\ IF collected \cup batch = Range(toProcess)
             THEN /\ mpc' = "returned"
                  /\ collected' = {}
                  /\ semValue' = 0
                  /\ tpc' = [u \in Urls |-> "none"]
                  /\ tout' = [u \in Urls |-> "pending"]
                  /\ label' = [u \in Urls |-> 0]
                  /\ ready' = <<>>
                  /\ todo' = 0
             ELSE /\ mpc' = "waiting"
                  /\ collected' = collected \cup batch
                  /\ semValue' = value
                  /\ tout' = [u \in Urls |-> IF u \in batch THEN "pending" ELSE tout[u]]
                  /\ ready' = Tail(ready)
                  /\ todo' = AfterHead
                  /\ UNCHANGED <<tpc, label>>
    /\ UNCHANGED <<rerun, resume, concurrency, stored, storedAtStart, existing, toProcess,
                   semWaiters, fetched, success>>
    /\ UNCHANGED <<limiterVars, fetchVars, laterVars>>

\* _run_player_scraping on the returned mapping: the counts, the rate, the verdict.
Report ==
    /\ mpc = "returned"
    /\ LET total == Cardinality({u \in Urls : results[u] # "unset"})
           ok == Cardinality({u \in Urls : results[u] = "ok"})
       IN success' = IF SuccessRateOk(ok, total) THEN "yes" ELSE "no"
    /\ mpc' = "reported"
    /\ results' = [u \in Urls |-> "unset"]
    /\ UNCHANGED <<rerun, resume, concurrency, stored, storedAtStart, existing, toProcess,
                   tpc, tout, label, semValue, semWaiters, ready, todo,
                   collected, fetched>>
    /\ UNCHANGED <<limiterVars, fetchVars, laterVars>>

\* One run on an empty storage, where `resume` makes no difference (the resume
\* set is empty either way; SpecResume has the runs on a filled storage).
RunNext ==
    \/ /\ mpc = "idle"
       /\ \E conc \in {MAX_CONCURRENT_REQUESTS} \cup 1..MaxConcurrency :
            StartRun(TRUE, conc)
    \/ \E u \in Urls : FetchEvent(u)
    \/ \E u \in Urls : TaskFetch(u)
    \/ \E u \in Urls : SemResume(u)
    \/ \E u \in Urls : DoneCallback(u)
    \/ MainCollect
    \/ Report

SpecRun == RunInit /\ [][RunNext]_vars

(* ------------------------------------------ runs of the pipeline (SpecResume) *)
(* The player-scraping phase run again and again over the same storage, with  *)
(* a semaphore wide enough for every task (concurrency = number of URLs): no  *)
(* task waits for a permit, and the order in which the loop runs the tasks'   *)
(* steps is left free.                                                        *)

\* The task of u in such a run: _fetch returns, the permit goes back with
\* nobody waiting for it, the rest of scrape_player runs and the task ends.
ResumeTask(u) ==
    /\ mpc = "waiting"
    /\ tpc[u] = "in_fetch"
    /\ semWaiters = <<>>
    /\ fetched' = fetched \cup {u}
    /\ semValue' = semValue + 1
    /\ tpc' = [tpc EXCEPT ![u] = "done"]
    /\ \E fr \in FetchResults : \E end \in AfterFetch(fr) :
           /\ tout' = [tout EXCEPT ![u] = end[1]]
           /\ stored' = IF end[2] THEN stored \cup {PlayerId(u)} ELSE stored
    /\ UNCHANGED <<rerun, mpc, resume, concurrency, storedAtStart, existing, toProcess,
                   label, semWaiters, ready, todo, results, collected, success>>
    /\ UNCHANGED <<limiterVars, fetchVars, laterVars>>

\* The batch loop of such a run, all its rounds together: every task's outcome
\* is recorded and the function returns `results`.
ResumeCollect ==
    /\ mpc = "waiting"
    /\ \A u \in Range(toProcess) : tpc[u] = "done"
    /\ results' = Recorded(Range(toProcess))
    /\ mpc' = "returned"
    /\ semValue' = 0
    /\ tpc' = [u \in Urls |-> "none"]
    /\ tout' = [u \in Urls |-> "pending"]
    /\ label' = [u \in Urls |-> 0]
    /\ UNCHANGED <<rerun, resume, concurrency, stored, storedAtStart, existing, toProcess,
                   semWaiters, ready, todo, collected, fetched, success>>
    /\ UNCHANGED <<limiterVars, fetchVars, laterVars>>

ResumeNext ==
    \/ \E res \in BOOLEAN : StartRun(res, NUrls)
    \/ \E u \in Urls : ResumeTask(u)
    \/ ResumeCollect
    \/ Report

SpecResume == RunInit /\ [][ResumeNext]_vars

(* C3: at every point of a run the number of tasks inside the section of      *)
(* _fetch guarded by the semaphore is at most the `concurrency` the semaphore *)
(* was created with, whatever adjustments of semaphore._value were made.      *)
C3_InFlightBounded ==
    mpc = "waiting" => Cardinality(InFetch) <= concurrency

(* C4: within one run the ceiling (permits held plus permits available) never *)
(* increases: no step of the run makes it larger than it was.                 *)
C4_CeilingNeverIncreases ==
    [][(mpc = "waiting" /\ mpc' = "waiting") => Ceiling' <= Ceiling]_vars

(* C5: after each batch returned by asyncio.wait, if more than 30% of the     *)
(* batch failed the ceiling for subsequent dispatch is exactly one lower,     *)
(* a ceiling of 1 staying 1; otherwise the ceiling is unchanged.              *)
C5_BatchAdjustsCeiling ==
    [][(mpc = "waiting" /\ mpc' = "waiting" /\ collected' # collected) =>
          LET batch == collected' \ collected
              fails == Cardinality({u \in batch : results'[label[u]] = "failed"})
          IN Ceiling' = IF HighFailureRate(fails, Cardinality(batch))
                        THEN Max(1, Ceiling - 1)
                        ELSE Ceiling]_vars

\* The URLs a run has to dispatch: with resume, those whose identifier was not
\* in storage when the run started; without resume, all of them.
C9_Expected ==
    {u \in Urls : resume => PlayerId(u) \notin storedAtStart}

(* C9: with resume a run dispatches exactly the given URLs whose identifier   *)
(* is not in the set read from storage at its start and fetches no URL whose  *)
(* identifier is in that set; without resume it dispatches every given URL,   *)
(* those with a persisted record included.                                    *)
C9_ResumeFilter ==
    /\ mpc = "waiting" => {u \in Urls : tpc[u] # "none"} = C9_Expected
    /\ mpc \in {"waiting", "returned", "reported"} =>
          /\ Range(toProcess) = C9_Expected
          /\ fetched \subseteq C9_Expected
          /\ existing = (IF resume THEN storedAtStart ELSE {})
    /\ mpc \in {"returned", "reported"} => fetched = C9_Expected

\* A run with resume has returned: it skipped a URL that was in storage at its
\* start and fetched one that was not.
C9_Witness ==
    /\ mpc = "returned"
    /\ resume
    /\ \E u \in Urls : PlayerId(u) \in storedAtStart /\ u \notin fetched
    /\ \E u \in Urls : PlayerId(u) \notin storedAtStart /\ u \in fetched

(* C10: a second run with resume, after a first run that persisted every      *)
(* discovered profile, issues no fetch and is reported as successful.         *)
C10_SecondRunSucceeds ==
    (/\ mpc = "reported"
     /\ rerun
     /\ resume
     /\ \A u \in Urls : PlayerId(u) \in storedAtStart)
        => (fetched = {} /\ success = "yes")

(* C11: the phase is reported successful only if at least 80% of the          *)
(* dispatched identifiers have a record saved by the storage backend.         *)
C11_SuccessMeansPersisted ==
    (mpc = "reported" /\ success = "yes") =>
        100 * Cardinality({u \in fetched : PlayerId(u) \in stored})
            >= 80 * Cardinality(fetched)

(* C12: an identifier whose save failed is reported as failed in the results  *)
(* of the run (the entry its task is recorded under is False).                *)
C12_FailedSaveReported ==
    [][(mpc = "waiting" /\ mpc' = "returned") =>
          \A u \in Range(toProcess) :
              (tout[u] = "record" /\ PlayerId(u) \notin stored) =>
                  results'[label[u]] = "failed"]_vars

(* ------------------------------------------------ scrape_player (SpecPlayer) *)
(* The calls of scrape_player of one run, one per URL, each step by step:     *)
(* the requests of _fetch, the extraction, the save, the return. Between the  *)
(* return of _fetch and the end of the call there is no await, so no other    *)
(* call runs in between (`running`).                                          *)

\* What a request of _fetch can meet: a document, a 200 reply with an empty
\* body, a failure _fetch handles (429, HTTP error, ClientError, timeout), or an
\* exception it does not catch.
RequestOutcomes == {"doc", "empty", "fail", "raised"}

\* `if not html_content: ... return None`: the call goes on to extraction only
\* with a non-empty document.
ProceedsAlways(html) == TRUE
Proceeds(html) == html = "doc"

\* `if not player_id: ... return None` (the URL gives no identifier).
PlayerNoId(u) ==
    /\ running = 0
    /\ ppc[u] = "fetch"
    /\ attempts[u] = 0
    /\ ppc' = [ppc EXCEPT ![u] = "done"]
    /\ stage' = [stage EXCEPT ![u] = "Failed"]
    /\ pret' = [pret EXCEPT ![u] = "None"]
    /\ UNCHANGED <<attempts, running>>
    /\ UNCHANGED <<coreVars, exceptPlayer>>

\* One attempt of _fetch for u; with a document, with an empty body, or after
\* the last attempt, _fetch returns and scrape_player tests html_content.
PlayerRequest(u) ==
    /\ running = 0
    /\ ppc[u] = "fetch"
    /\ attempts[u] < DefaultRetries
    /\ \E out \in RequestOutcomes :
        IF out = "fail" /\ HasNextAttempt(attempts[u], DefaultRetries)
        THEN /\ attempts' = [attempts EXCEPT ![u] = @ + 1]
             /\ UNCHANGED <<ppc, stage, running, pret>>
        ELSE IF out = "raised"
        THEN /\ attempts' = [attempts EXCEPT ![u] = 0]
             /\ ppc' = [ppc EXCEPT ![u] = "done"]
             /\ stage' = [stage EXCEPT ![u] = "Failed"]
             /\ pret' = [pret EXCEPT ![u] = "raised"]
             /\ UNCHANGED running
        ELSE LET html == IF out = "doc" THEN "doc" ELSE "nothing"
             IN /\ attempts' = [attempts EXCEPT ![u] = 0]
                /\ stage' = [stage EXCEPT ![u] = IF html = "doc" THEN "Fetched" ELSE "Failed"]
                /\ IF Proceeds(html)
                   THEN /\ ppc' = [ppc EXCEPT ![u] = "extract"]
                        /\ running' = u
                        /\ UNCHANGED pret
                   ELSE /\ ppc' = [ppc EXCEPT ![u] = "done"]
                        /\ pret' = [pret EXCEPT ![u] = "None"]
                        /\ UNCHANGED running
    /\ UNCHANGED <<coreVars, exceptPlayer>>

\* BeautifulSoup and _extract_player_data: the data (a dict that is never
\* empty), or an exception, which `except Exception` turns into None.
PlayerExtract(u) ==
    /\ running = u
    /\ ppc[u] = "extract"
    /\ \/ /\ ppc' = [ppc EXCEPT ![u] = "save"]
          /\ stage' = [stage EXCEPT ![u] = "Extracted"]
          /\ UNCHANGED <<running, pret>>
       \/ /\ ppc' = [ppc EXCEPT ![u] = "done"]
          /\ stage' = [stage EXCEPT ![u] = "Failed"]
          /\ pret' = [pret EXCEPT ![u] = "None"]
          /\ running' = 0
    /\ UNCHANGED attempts
    /\ UNCHANGED <<coreVars, exceptPlayer>>

\* format_stats_data and utils.save_data: saved (True), not saved (False, the
\* value is not looked at), or an exception, caught like the others.
PlayerSave(u) ==
    /\ running = u
    /\ ppc[u] = "save"
    /\ \/ /\ ppc' = [ppc EXCEPT ![u] = "return"]
          /\ stage' = [stage EXCEPT ![u] = "Persisted"]
          /\ UNCHANGED <<running, pret>>
       \/ /\ ppc' = [ppc EXCEPT ![u] = "return"]
          /\ UNCHANGED <<stage, running, pret>>
       \/ /\ ppc' = [ppc EXCEPT ![u] = "done"]
          /\ stage' = [stage EXCEPT ![u] = "Failed"]
          /\ pret' = [pret EXCEPT ![u] = "None"]
          /\ running' = 0
    /\ UNCHANGED attempts
    /\ UNCHANGED <<coreVars, exceptPlayer>>

\* `return formatted_data`
PlayerReturn(u) ==
    /\ running = u
    /\ ppc[u] = "return"
    /\ ppc' = [ppc EXCEPT ![u] = "done"]
    /\ pret' = [pret EXCEPT ![u] = "record"]
    /\ running' = 0
    /\ UNCHANGED <<stage, attempts>>
    /\ UNCHANGED <<coreVars, exceptPlayer>>

PlayerInit == CoreIdle /\ LaterIdle

PlayerNext ==
    \E u \in Urls :
        \/ PlayerNoId(u)
        \/ PlayerRequest(u)
        \/ PlayerExtract(u)
        \/ PlayerSave(u)
        \/ PlayerReturn(u)

SpecPlayer == PlayerInit /\ [][PlayerNext]_vars

\* The moves of a profile the state machine allows.
C13_Moves ==
    {<<"Pending", "Fetched">>, <<"Fetched", "Extracted">>, <<"Extracted", "Persisted">>,
     <<"Pending", "Failed">>, <<"Fetched", "Failed">>, <<"Extracted", "Failed">>,
     <<"Persisted", "Failed">>}

(* C13: each profile moves only along Pending -> Fetched -> Extracted ->      *)
(* Persisted or from one of these to Failed; extraction runs only for a       *)
(* profile whose fetch gave a document, a save only after extraction, and     *)
(* nothing is requested, extracted or saved for a profile that is Failed.     *)
C13_StateMachine ==
    [][\A u \in Urls :
          /\ stage'[u] # stage[u] => <<stage[u], stage'[u]>> \in C13_Moves
          /\ (ppc[u] = "extract" /\ ppc'[u] # "extract") => stage[u] = "Fetched"
          /\ (ppc[u] = "save" /\ ppc'[u] # "save") => stage[u] = "Extracted"
          /\ stage[u] = "Failed" =>
                /\ ppc[u] = "done"
                /\ ppc'[u] = ppc[u] /\ stage'[u] = stage[u]
                /\ attempts'[u] = attempts[u] /\ pret'[u] = pret[u]]_vars

\* One profile failed in its fetch after all attempts, another went through
\* extraction and save, a third failed in extraction.
C13_Witness ==
    /\ \E u \in Urls : stage[u] = "Persisted" /\ pret[u] = "record"
    /\ \E u \in Urls : stage[u] = "Failed" /\ pret[u] = "None"
    /\ \E u \in Urls : stage[u] = "Failed" /\ pret[u] = "raised"
    /\ \E u \in Urls : ppc[u] = "fetch" /\ attempts[u] = DefaultRetries - 1

(* ------------------------------------------------- more claims on SpecRun *)

\* The URLs that have an entry in `results`.
C14_Entries == {v \in Urls : results[v] # "unset"}

\* What is left to do in a run: each task's distance from being collected, and
\* the callbacks in the loop's queue.
C14_Count(pc) == Cardinality({u \in Urls : tpc[u] = pc})
C14_Rank ==
    10 * C14_Count("sem_wait") + 8 * C14_Count("woken") + 6 * C14_Count("in_fetch")
    + 4 * C14_Count("finishing")
    + 2 * Cardinality({u \in Urls : tpc[u] = "done" /\ u \notin collected})
    + Len(ready) + Cardinality({i \in 1..Len(ready) : ready[i].kind = "done"})

(* C14: a failed fetch or an exception in one profile does not abort the run: *)
(* while the batch loop waits some step can always be taken and every step    *)
(* brings the run nearer its end, so the loop ends; when it has, every        *)
(* dispatched URL has an entry in the results and no other URL has one, and   *)
(* no entry is written twice.                                                 *)
C14_EveryUrlRecorded ==
    /\ [](mpc = "waiting" => ENABLED RunNext)
    /\ [](mpc = "returned" => C14_Entries = Range(toProcess))
    /\ [][mpc = "waiting" =>
             /\ mpc' = "waiting" => C14_Rank' < C14_Rank
             /\ \A v \in Urls : results[v] # "unset" => results'[v] = results[v]]_vars

\* A run over all the URLs has returned, after failures and successes.
C14_Witness ==
    /\ mpc = "returned"
    /\ Range(toProcess) = Urls
    /\ \E v \in Urls : results[v] = "failed"
    /\ \E v \in Urls : results[v] = "ok"

(* ------------------------------------------ scrape_letter_index (SpecIndex) *)
(* The calls of scrape_letter_index for one letter, one after the other, over *)
(* one storage: the cache lookup, the listing pages one by one, the cache     *)
(* write. What a listing page shows is drawn when the page is requested.      *)

Links == 1..NLinks

\* The links a listing page can yield (_extract_players_from_page, in document
\* order): here no link, one link, or every link once in ascending order.
RECURSIVE Ascending(_)
Ascending(S) ==
    IF S = {} THEN <<>>
    ELSE LET m == CHOOSE x \in S : \A y \in S : x <= y
         IN <<m>> \o Ascending(S \ {m})

PageContents == {<<>>, Ascending(Links)} \cup {<<a>> : a \in Links}

\* utils.load_data: the entry, or None when there is none or the storage
\* cannot be read (load_json and load_from_couchdb return None on an exception).
LoadData(c, ok) == IF ok THEN c ELSE [has |-> FALSE, list |-> <<>>]

\* A lookup that never finds the entry
CacheHitNever(m, c) == FALSE

\* `if cached_data:` on what utils.load_data gives for the cache entry. In file
\* mode that is the list itself (None without a file); in couchdb mode the list
\* was wrapped by save_data into a dict with 'data' and 'wrapped', which is
\* never empty.
CacheHit(m, c) ==
    IF m = "couchdb" THEN c.has
    ELSE c.has /\ Len(c.list) > 0

\* scrape_letter_index up to the first page request: the cache lookup.
IndexCall ==
    /\ ipc \in {"idle", "returned"}
    /\ loadOk' \in BOOLEAN
    /\ IF CacheHit(mode, LoadData(cache, loadOk'))
       THEN /\ ipc' = "returned"
            /\ iret' = cache.list
            /\ pageNum' = 0
       ELSE /\ ipc' = "paging"
            /\ pageNum' = 1
            /\ iret' = <<>>
    /\ allPlayers' = <<>>
    /\ pageLog' = <<>>
    /\ got' = <<>>
    /\ UNCHANGED <<mode, cache, stopReason>>
    /\ UNCHANGED <<coreVars, exceptIndex>>

\* One round of the loop of _scrape_letter_pages: the request for page
\* page_num; a failed request, a status other than 200 or a page without links
\* ends the loop, and scrape_letter_index writes the cache (save_data, whose
\* value is not looked at) and returns all_players.
IndexPage ==
    /\ ipc = "paging"
    /\ pageLog' = Append(pageLog, pageNum)
    /\ \E ok \in BOOLEAN, page \in PageContents :
        IF ok /\ page # <<>> /\ pageNum <= MaxPages
        THEN /\ allPlayers' = allPlayers \o page
             /\ got' = Append(got, page)
             /\ pageNum' = pageNum + 1
             /\ UNCHANGED <<ipc, cache, iret, stopReason>>
        ELSE /\ ipc' = "returned"
             /\ stopReason' = IF ok THEN "empty" ELSE "failed"
             /\ iret' = allPlayers
             /\ \E saved \in BOOLEAN :
                  cache' = IF saved THEN [has |-> TRUE, list |-> allPlayers] ELSE cache
             /\ UNCHANGED <<allPlayers, got, pageNum>>
    /\ UNCHANGED <<mode, loadOk>>
    /\ UNCHANGED <<coreVars, exceptIndex>>

IndexInit ==
    /\ CoreIdle
    /\ IdleExceptIndex
    /\ mode \in {"file", "couchdb"}
    /\ cache = [has |-> FALSE, list |-> <<>>]
    /\ ipc = "idle"
    /\ pageNum = 0
    /\ allPlayers = <<>>
    /\ pageLog = <<>>
    /\ got = <<>>
    /\ iret = <<>>
    /\ stopReason = "none"
    /\ loadOk = TRUE

IndexNext == IndexCall \/ IndexPage

SpecIndex == IndexInit /\ [][IndexNext]_vars

RECURSIVE Concat(_)
Concat(pages) == IF pages = <<>> THEN <<>> ELSE Head(pages) \o Concat(Tail(pages))

\* A list without its repeated elements, first occurrences kept in order.
RECURSIVE Dedup(_)
Dedup(list) ==
    IF list = <<>> THEN <<>>
    ELSE LET front == Dedup(SubSeq(list, 1, Len(list) - 1))
             last == list[Len(list)]
         IN IF \E i \in 1..Len(front) : front[i] = last THEN front
            ELSE Append(front, last)

(* C15: when pages 1..N-1 of a letter each yield a link and page N yields     *)
(* none or fails, discovery requests pages 1..N in order and no other, and    *)
(* returns the links of pages 1..N-1 in page order without repetitions.       *)
C15_PaginationDeduplicated ==
    (ipc = "returned" /\ pageLog # <<>>) =>
        /\ pageLog = [i \in 1..(Len(got) + 1) |-> i]
        /\ iret = Dedup(Concat(got))

(* C17: once an earlier call has stored the letter's list in the cache,       *)
(* whatever its length and in either storage mode, a call issues no request   *)
(* and returns the cached list.                                               *)
C17_CacheShortCircuits ==
    [][(ipc \in {"idle", "returned"} /\ cache.has) =>
          (ipc' = "returned" /\ pageLog' = <<>> /\ iret' = cache.list)]_vars

(* ------------------------------------------- get_all_player_urls (SpecUrls) *)
(* One call of get_all_player_urls: scrape_all_letters gives the dictionary   *)
(* of the letters' lists, then the loop over the letters builds ordered_urls. *)
(* A link stands for its full_url (config.BASE_URL + href, one URL per href). *)

Letters == 1..NLetters

\* config.ALPHABET
Alphabet == [i \in 1..NLetters |-> i]

\* The values of the argument `letters`: None, or a list of letters (letters
\* may repeat).
LettersArgs ==
    {[given |-> FALSE, list |-> <<>>]} \cup
    {[given |-> TRUE, list |-> l] : l \in UNION {[1..n -> Letters] : n \in 0..NLetters}}

\* The lists scrape_letter_index can give for a letter: no link, one link, or
\* two links which may be the same one.
LinkLists ==
    {<<>>} \cup {<<a>> : a \in Links} \cup {<<a, b>> : a \in Links, b \in Links}

\* `if letters is None: letters = config.ALPHABET` of scrape_all_letters.
ScrapedLetters(arg) == IF arg.given THEN arg.list ELSE Alphabet

\* `letters or config.ALPHABET`: None and the empty list both give the alphabet.
LoopLetters(arg) == IF arg.given /\ arg.list # <<>> THEN arg.list ELSE Alphabet

\* `if player['full_url'] not in ordered_urls`
SeenNever(fullUrl, ordered) == FALSE
Seen(fullUrl, ordered) == \E i \in 1..Len(ordered) : ordered[i] = fullUrl

\* The inner loop of get_all_player_urls over the players of one letter.
RECURSIVE AppendNew(_, _)
AppendNew(ordered, players) ==
    IF players = <<>> THEN ordered
    ELSE AppendNew(IF Seen(Head(players), ordered) THEN ordered
                   ELSE Append(ordered, Head(players)),
                   Tail(players))

\* scrape_all_letters: one list per letter asked for (the empty list when
\* scrape_letter_index raised), and `ordered_urls = []`.
UrlsScrapeAll ==
    /\ upc = "idle"
    /\ allPlayerData' \in [Range(ScrapedLetters(letters)) -> LinkLists]
    /\ upc' = "collecting"
    /\ letterIdx' = 1
    /\ orderedUrls' = <<>>
    /\ UNCHANGED letters
    /\ UNCHANGED <<coreVars, exceptUrls>>

\* One round of `for letter in (letters or config.ALPHABET)`.
UrlsLetter ==
    /\ upc = "collecting"
    /\ letterIdx <= Len(LoopLetters(letters))
    /\ LET letter == LoopLetters(letters)[letterIdx]
       IN orderedUrls' = IF letter \in DOMAIN allPlayerData
                         THEN AppendNew(orderedUrls, allPlayerData[letter])
                         ELSE orderedUrls
    /\ letterIdx' = letterIdx + 1
    /\ UNCHANGED <<letters, allPlayerData, upc>>
    /\ UNCHANGED <<coreVars, exceptUrls>>

\* `return ordered_urls`
UrlsReturn ==
    /\ upc = "collecting"
    /\ letterIdx > Len(LoopLetters(letters))
    /\ upc' = "returned"
    /\ UNCHANGED <<letters, allPlayerData, letterIdx, orderedUrls>>
    /\ UNCHANGED <<coreVars, exceptUrls>>

UrlsInit ==
    /\ CoreIdle
    /\ IdleExceptUrls
    /\ letters \in LettersArgs
    /\ allPlayerData = <<>>
    /\ upc = "idle"
    /\ letterIdx = 0
    /\ orderedUrls = <<>>

UrlsNext == UrlsScrapeAll \/ UrlsLetter \/ UrlsReturn

SpecUrls == UrlsInit /\ [][UrlsNext]_vars

\* The links in the order the call visits them: letters in the given order,
\* each letter's links in page order.
C16_Visited ==
    Concat([i \in 1..Len(LoopLetters(letters)) |->
              IF LoopLetters(letters)[i] \in DOMAIN allPlayerData
              THEN allPlayerData[LoopLetters(letters)[i]] ELSE <<>>])

C16_First(fullUrl) == CHOOSE i \in 1..Len(C16_Visited) :
    /\ C16_Visited[i] = fullUrl
    /\ \A j \in 1..(i - 1) : C16_Visited[j] # fullUrl

(* C16: the list get_all_player_urls returns has no URL twice, has every URL  *)
(* found for the letters, and orders the URLs by their first occurrence when  *)
(* the letters are visited in the given order and the links in page order.    *)
C16_UrlsDeduplicatedInOrder ==
    upc = "returned" =>
        /\ \A i, j \in 1..Len(orderedUrls) : orderedUrls[i] = orderedUrls[j] => i = j
        /\ Range(orderedUrls) = UNION {Range(allPlayerData[l]) : l \in DOMAIN allPlayerData}
        /\ \A i, j \in 1..Len(orderedUrls) :
             i < j => C16_First(orderedUrls[i]) < C16_First(orderedUrls[j])

\* A call over two letters where the second letter's list repeats a link of
\* the first and adds a new one.
C16_Witness ==
    /\ upc = "returned"
    /\ letters.given /\ Len(letters.list) > 1
    /\ Len(C16_Visited) > Len(orderedUrls)
    /\ Len(orderedUrls) > 1
    /\ \E l \in DOMAIN allPlayerData :
         /\ allPlayerData[l] # <<>>
         /\ l # letters.list[1]
         /\ allPlayerData[l][1] \in Range(allPlayerData[letters.list[1]])

(* -------------------------------- get_existing_data_ids (SpecStore) *)
(* The storage namespace utils.save_data writes to, and the listing of it     *)
(* that builds the resume set. An identifier is its text cut into pieces: the *)
(* fixed pieces in `text`, followed by the letter or the player number `n`    *)
(* (0 when there is none).                                                    *)

\* extract_player_id_from_url(url) of a profile, e.g. "john-smith-<n>"
PlayerRecordId(u) == [text |-> <<"john-smith-">>, n |-> u]
\* config.INDEX_CACHE_PATTERN without ".json": "player_index_<letter>"
IndexCacheId(l) == [text |-> <<"player_", "index_">>, n |-> l]
\* save_consolidated_index(output_file="all_players_index")
ConsolidatedId == [text |-> <<"all_players_index">>, n |-> 0]
\* utils.save_data(report, "scraping_summary", ...)
SummaryId == [text |-> <<"scraping_summary">>, n |-> 0]

\* str.startswith for a prefix that is one of the pieces
StartsWith(id, piece) == id.text # <<>> /\ Head(id.text) = piece

\* get_existing_player_files: the stems of PLAYER_DATA_DIR/*.json but for the
\* three exclusions.
ExistingPlayerFiles(docs) ==
    {id \in docs : /\ ~StartsWith(id, "index_")
                   /\ id # ConsolidatedId
                   /\ ~StartsWith(id, "scraping_summary")}

\* get_existing_couchdb_docs: every document id not starting with "_".
ExistingCouchdbDocs(docs) == {id \in docs : ~StartsWith(id, "_")}

\* get_existing_data_ids
ExistingDataIds(m, docs) ==
    IF m = "couchdb" THEN ExistingCouchdbDocs(docs) ELSE ExistingPlayerFiles(docs)

\* utils.save_data under an identifier: the namespace afterwards (a save that
\* fails changes nothing).
Saved(docs, id) == docs \cup {id}

\* scrape_player's save of a record
StoreSavePlayer ==
    /\ \E u \in Urls : documents' = Saved(documents, PlayerRecordId(u))
    /\ UNCHANGED <<storageMode, existingIds>>
    /\ UNCHANGED <<coreVars, exceptStore>>

\* scrape_letter_index's save of the letter's list
StoreSaveIndexCache ==
    /\ \E l \in Letters : documents' = Saved(documents, IndexCacheId(l))
    /\ UNCHANGED <<storageMode, existingIds>>
    /\ UNCHANGED <<coreVars, exceptStore>>

\* save_consolidated_index
StoreSaveConsolidated ==
    /\ documents' = Saved(documents, ConsolidatedId)
    /\ UNCHANGED <<storageMode, existingIds>>
    /\ UNCHANGED <<coreVars, exceptStore>>

\* the summary report of main.py
StoreSaveSummary ==
    /\ documents' = Saved(documents, SummaryId)
    /\ UNCHANGED <<storageMode, existingIds>>
    /\ UNCHANGED <<coreVars, exceptStore>>

\* A call of get_existing_data_ids
StoreListIds ==
    /\ existingIds' = ExistingDataIds(storageMode, documents)
    /\ UNCHANGED <<storageMode, documents>>
    /\ UNCHANGED <<coreVars, exceptStore>>

StoreInit ==
    /\ CoreIdle
    /\ IdleExceptStore
    /\ storageMode \in {"file", "couchdb"}
    /\ documents = {}
    /\ existingIds = {}

StoreNext ==
    \/ StoreSavePlayer
    \/ StoreSaveIndexCache
    \/ StoreSaveConsolidated
    \/ StoreSaveSummary
    \/ StoreListIds

SpecStore == StoreInit /\ [][StoreNext]_vars

(* C18: whatever was saved before, the resume set get_existing_data_ids       *)
(* returns holds identifiers of player records only: no per-letter index      *)
(* cache entry, not the consolidated index, not the summary report, in file   *)
(* mode and in CouchDB mode.                                                  *)
C18_ResumeSetOnlyRecords ==
    \A id \in existingIds : \E u \in Urls : id = PlayerRecordId(u)

(* ------------------------------------ extract_player_id_from_url (SpecId) *)
(* The function on URLs as sequences of characters. The two literals are      *)
(* shortened, keeping their shape: the path marker begins and ends with "/"   *)
(* and has no "/" or "." in between; the suffix begins with "." and has no    *)
(* "/" in it.                                                                 *)

Chars == {"/", "c", ".", "h"}
\* '/cfb/players/'
Marker == <<"/", "c", "/">>
\* '.html'
Suffix == <<".", "h">>

UrlStrings == UNION {[1..n -> Chars] : n \in 0..MaxUrlLen}

\* s[i:].startswith(pat), with i counted from 1
StartsAt(s, pat, i) ==
    /\ i + Len(pat) - 1 <= Len(s)
    /\ SubSeq(s, i, i + Len(pat) - 1) = pat

\* `pat in s`
Contains(s, pat) == \E i \in 1..Len(s) : StartsAt(s, pat, i)

\* s.endswith(suf)
EndsWith(s, suf) ==
    /\ Len(s) >= Len(suf)
    /\ SubSeq(s, Len(s) - Len(suf) + 1, Len(s)) = suf

\* s.split(pat)[-1]: str.split looks for pat from the left and goes on right
\* after each occurrence it finds; `start` is where the current piece begins.
RECURSIVE LastPiece(_, _, _, _)
LastPiece(s, pat, i, start) ==
    IF i + Len(pat) - 1 > Len(s) THEN SubSeq(s, start, Len(s))
    ELSE IF StartsAt(s, pat, i)
         THEN LastPiece(s, pat, i + Len(pat), i + Len(pat))
         ELSE LastPiece(s, pat, i + 1, start)

\* s.split(pat)[1], the piece after the first occurrence only
RECURSIVE PieceAfterFirst(_, _, _)
PieceAfterFirst(s, pat, i) ==
    IF i + Len(pat) - 1 > Len(s) THEN s
    ELSE IF StartsAt(s, pat, i)
         THEN SubSeq(s, i + Len(pat), Len(s))
         ELSE PieceAfterFirst(s, pat, i + 1)

\* filename = url.split('/cfb/players/')[-1]
FilenameAfterFirst(u) == PieceAfterFirst(u, Marker, 1)
Filename(u) == LastPiece(u, Marker, 1, 1)

\* Python's None, and a string result
NoId == [some |-> FALSE, id |-> <<>>]
SomeId(text) == [some |-> TRUE, id |-> text]

\* extract_player_id_from_url; filename[:-5] drops len('.html') characters.
ExtractPlayerIdFromUrl(u) ==
    IF Contains(u, Marker) /\ EndsWith(Filename(u), Suffix)
    THEN SomeId(SubSeq(Filename(u), 1, Len(Filename(u)) - Len(Suffix)))
    ELSE NoId

\* A call of the function on the URL.
IdExtract ==
    /\ Len(idResults) < 2
    /\ idResults' = Append(idResults, ExtractPlayerIdFromUrl(url))
    /\ UNCHANGED url
    /\ UNCHANGED <<coreVars, exceptId>>

IdInit ==
    /\ CoreIdle
    /\ IdleExceptId
    /\ url \in UrlStrings
    /\ idResults = <<>>

IdNext == IdExtract

SpecId == IdInit /\ [][IdNext]_vars

\* Where the marker occurs in the URL, overlapping occurrences included.
C19_Occurrences == {i \in 1..Len(url) : StartsAt(url, Marker, i)}

\* The occurrences a scan from the left takes when it goes on after the end of
\* each occurrence it takes: an occurrence is taken when it does not begin
\* inside one taken before it.
C19_Taken ==
    CHOOSE T \in SUBSET C19_Occurrences :
        \A i \in C19_Occurrences :
            i \in T <=> ~\E j \in T : j < i /\ i < j + Len(Marker)

C19_Max(S) == CHOOSE m \in S : \A k \in S : k <= m

\* The result the claim describes, for the text after the occurrence at `last`.
C19_Result(last) ==
    IF C19_Occurrences # {} /\ EndsWith(url, Suffix)
    THEN SomeId(SubSeq(url, last + Len(Marker), Len(url) - Len(Suffix)))
    ELSE NoId

HeaderTexts == {"", "A", "B"}
CellTexts == {"x", "-", "", "emdash"}

\* `if header_text: headers.append(header_text)`
RECURSIVE NonEmptyTexts(_)
NonEmptyTexts(texts) ==
    IF texts = <<>> THEN <<>>
    ELSE IF Head(texts) = "" THEN NonEmptyTexts(Tail(texts))
         ELSE <<Head(texts)>> \o NonEmptyTexts(Tail(texts))

\* row_data[key] = value on a dict
Put(dict, key, value) ==
    [k \in DOMAIN dict \cup {key} |-> IF k = key THEN value ELSE dict[k]]

\* One round of `for i, cell in enumerate(cells)`, i counted from 1.
StoreCell(dict, hs, cs, i) ==
    IF i <= Len(hs) THEN Put(dict, hs[i], cs[i]) ELSE dict

\* The loop over the cells of one row, from cell i on.
RECURSIVE RowData(_, _, _, _)
RowData(dict, hs, cs, i) ==
    IF i > Len(cs) THEN dict
    ELSE RowData(StoreCell(dict, hs, cs, i), hs, cs, i + 1)

\* any(value and value not in ['-', '', '—'] for value in row_data.values())
MeaningfulWhenTruthy(dict) == \E k \in DOMAIN dict : dict[k] # ""
Meaningful(dict) == \E k \in DOMAIN dict : dict[k] \notin {"-", "", "emdash"}

\* `if row.find('th', {'scope': 'col'}): continue`: find looks at every th of
\* the row.
SkipsRow(ch) == ch # {}

\* The header cells (of the last row of thead, or of the table's first row) and
\* `if not headers: return rows_data`.
TableHeaders ==
    /\ tabpc = "start"
    /\ headerCells' \in UNION {[1..n -> HeaderTexts] : n \in 0..MaxCols}
    /\ headers' = NonEmptyTexts(headerCells')
    /\ tabpc' = IF headers' = <<>> THEN "returned" ELSE "rows"
    /\ UNCHANGED <<cells, colHeads, asData, kept, rowsData>>
    /\ UNCHANGED <<coreVars, exceptTable>>

\* The body of `for row in data_rows` for one row: a row with a th of scope
\* 'col' is passed over, and a row without cells gives nothing. Column-header
\* cells are drawn at the first and at the last position of the row.
TableRow ==
    /\ tabpc = "rows"
    /\ Len(rowsData) < MaxRows
    /\ \E cs \in UNION {[1..n -> CellTexts] : n \in 0..(MaxCols + 1)} :
         \E ch \in SUBSET ({1, Len(cs)} \cap (1..Len(cs))) :
            /\ cells' = cs
            /\ colHeads' = ch
            /\ asData' = ~SkipsRow(ch)
            /\ IF ~SkipsRow(ch) /\ Len(cs) > 0 /\ Meaningful(RowData(<<>>, headers, cs, 1))
               THEN /\ rowsData' = Append(rowsData, RowData(<<>>, headers, cs, 1))
                    /\ kept' = TRUE
               ELSE /\ kept' = FALSE
                    /\ UNCHANGED rowsData
    /\ tabpc' = "looked"
    /\ UNCHANGED <<headerCells, headers>>
    /\ UNCHANGED <<coreVars, exceptTable>>

\* The loop goes to the next row.
TableAdvance ==
    /\ tabpc = "looked"
    /\ tabpc' = "rows"
    /\ cells' = <<>>
    /\ colHeads' = {}
    /\ asData' = FALSE
    /\ kept' = FALSE
    /\ UNCHANGED <<headerCells, headers, rowsData>>
    /\ UNCHANGED <<coreVars, exceptTable>>

\* `return rows_data` after the last row
TableReturn ==
    /\ tabpc = "rows"
    /\ tabpc' = "returned"
    /\ UNCHANGED <<headerCells, headers, cells, colHeads, asData, kept, rowsData>>
    /\ UNCHANGED <<coreVars, exceptTable>>

TableInit ==
    /\ CoreIdle
    /\ IdleExceptTable
    /\ TableIdle

TableNext == TableHeaders \/ TableRow \/ TableAdvance \/ TableReturn

SpecTable == TableInit /\ [][TableNext]_vars

C20_Matched == 1..Min(Len(cells), Len(headers))

(* C20: the record of a data row has cell i under header i, for every cell    *)
(* that has a header, and nothing else: headers beyond the row's cells are    *)
(* absent, cells beyond the headers are dropped.                              *)
C20_CellUnderItsHeader ==
    kept =>
        LET record == rowsData[Len(rowsData)]
        IN /\ DOMAIN record = {headers[i] : i \in C20_Matched}
           /\ \A i \in C20_Matched : record[headers[i]] = cells[i]

\* The values the row's record maps its headers to: for each header text that
\* has a cell, the cell at the last position with that header text.
C21_MappedValues ==
    {cells[i] : i \in {j \in C20_Matched :
                          \A k \in C20_Matched : headers[k] = headers[j] => k <= j}}

C22_HeadersUniqueAndAligned ==
    tabpc # "start" =>
        /\ \A i, j \in 1..Len(headers) : headers[i] = headers[j] => i = j
        /\ \A i \in 1..Len(headers) : headers[i] = headerCells[i]
        /\ kept => Cardinality(DOMAIN rowsData[Len(rowsData)])
                      = Min(Len(cells), Len(headers))

(* C24: a candidate row is passed over exactly when its first cell is a       *)
(* column-header cell; a row whose first cell is a data cell or a row-header  *)
(* cell is processed as data.                                                 *)
C24_SkipIffFirstCellColumnHeader ==
    tabpc = "looked" => (asData <=> 1 \notin colHeads)

(* ------------------------------------- the record that is saved (SpecFormat) *)
(* scrape_player from the fetched page on: _extract_player_data builds the    *)
(* dict, utils.format_stats_data formats it, utils.save_data gets it. A dict  *)
(* is a function from its keys; a value is a name for what was extracted.     *)

\* What the extraction methods can give for a profile: each part empty or not.
Pages ==
    [player_id : {"p1", "p2"}, source_url : {"url"},
     player_info : {"{}", "info"}, career_stats : {"{}", "career"},
     season_stats : {"[]", "seasons"}, game_logs : {"[]", "logs"},
     advanced_stats : {"{}", "advanced"}]

\* The dict literal of _extract_player_data
ExtractPlayerData(pg) ==
    [k \in {"player_id", "source_url", "player_info", "career_stats",
            "season_stats", "game_logs", "advanced_stats"} |->
        CASE k = "player_id" -> pg.player_id
          [] k = "source_url" -> pg.source_url
          [] k = "player_info" -> pg.player_info
          [] k = "career_stats" -> pg.career_stats
          [] k = "season_stats" -> pg.season_stats
          [] k = "game_logs" -> pg.game_logs
          [] k = "advanced_stats" -> pg.advanced_stats]

\* raw_stats.get(key, default)
Get(dict, key, default) == IF key \in DOMAIN dict THEN dict[key] ELSE default

\* utils.format_stats_data: a new dict of five keys; "now" is
\* datetime.now().isoformat().
FormatStatsData(raw) ==
    [k \in {"scraped_at", "player_info", "career_stats", "season_stats", "game_logs"} |->
        CASE k = "scraped_at" -> "now"
          [] k = "player_info" -> Get(raw, "player_info", "{}")
          [] k = "career_stats" -> Get(raw, "career_stats", "{}")
          [] k = "season_stats" -> Get(raw, "season_stats", "[]")
          [] k = "game_logs" -> Get(raw, "game_logs", "[]")]

\* player_data = self._extract_player_data(soup, player_id, player_url)
FormatExtract ==
    /\ xpc = "fetched"
    /\ playerData' = ExtractPlayerData(soup)
    /\ xpc' = "extracted"
    /\ UNCHANGED <<soup, handedId, handedData>>
    /\ UNCHANGED <<coreVars, exceptFormat>>

\* formatted_data = utils.format_stats_data(player_data);
\* utils.save_data(formatted_data, player_id, self.logger)
FormatSave ==
    /\ xpc = "extracted"
    /\ handedData' = FormatStatsData(playerData)
    /\ handedId' = playerData["player_id"]
    /\ xpc' = "saved"
    /\ UNCHANGED <<soup, playerData>>
    /\ UNCHANGED <<coreVars, exceptFormat>>

FormatInit ==
    /\ CoreIdle
    /\ IdleExceptFormat
    /\ xpc = "fetched"
    /\ soup \in Pages
    /\ playerData = <<>>
    /\ handedId = ""
    /\ handedData = <<>>

FormatNext == FormatExtract \/ FormatSave

SpecFormat == FormatInit /\ [][FormatNext]_vars

(* C23: the record handed to the storage for a scraped profile has the        *)
(* profile identifier (as a key of the record or as the identifier it is      *)
(* saved under), source_url, scraped_at, player_info, career_stats,           *)
(* season_stats, game_logs and advanced_stats, each with the value the        *)
(* extraction produced.                                                       *)
C23_RecordComplete ==
    xpc = "saved" =>
        /\ handedId = soup.player_id
        /\ {"source_url", "scraped_at", "player_info", "career_stats",
            "season_stats", "game_logs", "advanced_stats"} \subseteq DOMAIN handedData
        /\ handedData["source_url"] = soup.source_url
        /\ handedData["player_info"] = soup.player_info
        /\ handedData["career_stats"] = soup.career_stats
        /\ handedData["season_stats"] = soup.season_stats
        /\ handedData["game_logs"] = soup.game_logs
        /\ handedData["advanced_stats"] = soup.advanced_stats

(* ------------------------------------------- more claims on SpecRun, again *)

(* C25: an entry of the returned mapping is recorded for URL u from the       *)
(* outcome of the task created for u: True exactly when that task returned a  *)
(* record, False when it returned None or raised; never from the outcome of   *)
(* another URL's task.                                                        *)
C25_OutcomeUnderOwnUrl ==
    [][\A u \in Urls :
          (mpc = "waiting" /\ results[u] = "unset" /\ results'[u] # "unset") =>
              /\ tpc[u] = "done"
              /\ results'[u] = "ok" <=> tout[u] = "record"]_vars

(* ---------------------------------------------- more claims on SpecFetch *)

(* C26: the backoff sleep after the failed attempt k (counted from 0) that is *)
(* not the last one is between 0 and min(60, 2 * 2^k), so never above 60 s;   *)
(* after the last allowed attempt fails there is no backoff sleep before the  *)
(* failure is returned.                                                       *)
C26_BackoffBounded ==
    /\ [](fpc = "backoff" =>
            /\ attempt < retries - 1
            /\ 0 <= sleepFor
            /\ sleepFor <= 2 * 2^attempt
            /\ sleepFor <= 60)
    /\ [](backoffs = Cardinality({i \in 1..Len(respLog) :
                                   respLog[i] \in {"http_error", "client_error"} /\ i < retries}))
    /\ [][(fpc = "request" /\ attempt = retries - 1 /\ fpc' # "sleep429") =>
             (fpc' = "returned" /\ sleepFor' = 0 /\ backoffs' = backoffs)]_vars

\* A backoff sleep of the full 60 s, the cap, after a late failed attempt.
C26_Witness ==
    /\ fpc = "backoff"
    /\ sleepFor = MaxBackoff
    /\ 2 * 2^attempt > MaxBackoff

(* C27: a response with an error status other than 429 is handled like a      *)
(* connection error: its body is never returned as a document, the attempt is *)
(* followed by a backoff and a retry, and after `retries` such responses the  *)
(* fetch returns failure.                                                     *)
C27_ErrorStatusLikeConnectionError ==
    /\ []((fpc = "returned" /\ fresult = "doc") => respLog[Len(respLog)] = "ok")
    /\ []((Len(respLog) >= 1 /\ AllIn(respLog, {"http_error"})) =>
            /\ requests <= retries
            /\ fpc = "returned" => (requests = retries /\ fresult = "None"))
    /\ [][(fpc = "request" /\ respLog' = Append(respLog, "http_error")) =>
             IF attempt < retries - 1
             THEN fpc' = "backoff" /\ backoffs' = backoffs + 1 /\ fresult' = "pending"
             ELSE fpc' = "returned" /\ fresult' = "None"]_vars
    /\ [][fpc = "backoff" =>
             (attempt' = attempt + 1 /\ fpc' = "limiter" /\ fresult' = "pending")]_vars

\* A call that met an error status on each of its attempts has returned.
C27_Witness ==
    /\ fpc = "returned"
    /\ retries = DefaultRetries
    /\ Len(respLog) = DefaultRetries
    /\ AllIn(respLog, {"http_error"})

(* -------------------------------------------- more claims on SpecResume *)

(* C28: every fetch that returns a document leads scrape_player to a saved    *)
(* record and a reported success; so a task that ends with a record leaves    *)
(* its identifier in storage, and a later run with resume does not dispatch   *)
(* a URL whose task ended with a record in the run before.                    *)
C28_DocumentMeansSavedAndSkipped ==
    [][\A u \in Urls :
          (mpc = "waiting" /\ tout[u] = "pending" /\ tout'[u] = "record") =>
              PlayerId(u) \in stored']_vars

(* ---------------------------------------------- more claims on SpecIndex *)

\* A call after which the cache holds a non-empty list: every call from then
\* on returns that list and requests no page, and the cache stays as it is.
C29_LaterCallsFromCache ==
    [][(ipc \in {"idle", "returned"} /\ cache.has /\ cache.list # <<>>) =>
          (ipc' = "returned" /\ iret' = cache.list /\ pageLog' = <<>> /\ cache' = cache)]_vars

\* The same of the calls in which the storage can be read.
C29_LaterCallsFromCacheWhenRead ==
    [][(ipc \in {"idle", "returned"} /\ cache.has /\ cache.list # <<>> /\ loadOk') =>
          (ipc' = "returned" /\ iret' = cache.list /\ pageLog' = <<>> /\ cache' = cache)]_vars

\* The call whose request for page k > 1 fails returns the links of pages
\* 1..k-1 and has requested pages 1..k.
C29_ReturnsTruncated ==
    [][(ipc = "paging" /\ ipc' = "returned" /\ stopReason' = "failed" /\ pageNum > 1) =>
          /\ iret' = Concat(got)
          /\ iret' # <<>>
          /\ pageLog' = [i \in 1..pageNum |-> i]]_vars

C30_Queued == {t \in LTasks : lpc[t] = "lock_wait"}

(* C30: every caller of RateLimiter.wait() is granted in the end, callers are *)
(* granted in the order in which they asked for the lock, and at most one     *)
(* caller at a time is between reading and writing the last-grant timestamp.  *)
(* Granted in the end, as steps: the queue holds exactly the callers that     *)
(* wait, each once; a caller joins it at the end and leaves it from the front *)
(* only, by taking the free lock, so every grant brings each waiter one place *)
(* forward; nobody takes the lock past a waiter; and whenever somebody waits, *)
(* the holder's sleep is due within min_interval and the step that ends it,   *)
(* or the first waiter's step when the lock is free, can be taken as soon as  *)
(* it is due.                                                                 *)
C30_GrantedInOrder ==
    /\ [](/\ Cardinality(lockOwner) <= 1
          /\ lockOwner = {t \in LTasks : lpc[t] = "gate_sleep"}
          /\ C30_Queued = Range(lockWaiters)
          /\ Cardinality(C30_Queued) = Len(lockWaiters))
    /\ [](\A t \in lockOwner :
             /\ sleepUntil[t] <= now + MinInterval
             /\ now >= sleepUntil[t] => ENABLED GateWake(t))
    /\ []((lockOwner = {} /\ lockWaiters # <<>>) => ENABLED LockGranted(Head(lockWaiters)))
    /\ [][/\ \/ lockWaiters' = lockWaiters
             \/ /\ lockWaiters # <<>>
                /\ lockWaiters' = Tail(lockWaiters)
                /\ lockOwner = {}
                /\ lockOwner' = {Head(lockWaiters)}
             \/ \E t \in LTasks :
                   /\ lpc[t] = "idle"
                   /\ lockWaiters' = Append(lockWaiters, t)
                   /\ lockOwner' = lockOwner
          /\ (lockOwner' # {} /\ lockOwner' # lockOwner) =>
                /\ lockOwner = {}
                /\ lockWaiters # <<>> =>
                      /\ lockOwner' = {Head(lockWaiters)}
                      /\ lockWaiters' = Tail(lockWaiters)
          /\ Len(grantLog') > Len(grantLog) => (lockOwner # {} /\ lockOwner' = {})]_vars

\* Two callers queue for the lock behind its holder, and a grant was made.
C30_Witness ==
    /\ Len(lockWaiters) >= 2
    /\ lockOwner # {}
    /\ Len(grantLog) >= 1

====
